---------------------------- MODULE Spec2Model ----------------------------
(***************************************************************************)
(* Model of sc_split_genotype_free.py: reference-free genotype             *)
(* demultiplexing of pooled scRNA-seq by a fixed-round EM.                 *)
(*                                                                         *)
(* Strings are sequences of one-character strings, so that split(':') and  *)
(* "{}:{}".format are computed and not assumed.  Floating-point values are *)
(* exact rationals [n |-> numerator, d |-> denominator] in lowest terms    *)
(* (d = 0 is the IEEE result of a division by zero: NaN when n = 0).       *)
(***************************************************************************)
EXTENDS Integers, Sequences, FiniteSets, TLC

VARIABLES
    pc,                   \* position of the running function
    all_SNVs,             \* main / models.all_SNVs: list of SNV_data objects
    all_POS,              \* main: result of SNV_data.get_all_SNV_pos
    record,               \* main: the value of the SNV column read last
    num,                  \* models.num
    barcodes,             \* models.barcodes
    ref_bc_mtx,           \* models.ref_bc_mtx, row i belongs to all_SNVs[i]
    alt_bc_mtx,           \* models.alt_bc_mtx
    model_genotypes,      \* models.model_genotypes
    P_c_s,                \* models.P_c_s
    P_s_c,                \* models.P_s_c
    assigned,             \* models.assigned
    iterations,           \* run_model: iterations
    sum_log_likelihoods,  \* run_model: sum_log_likelihoods
    ops                   \* history: the model methods called so far, in order

vars == <<pc, all_SNVs, all_POS, record, num, barcodes, ref_bc_mtx, alt_bc_mtx,
          model_genotypes, P_c_s, P_s_c, assigned, iterations,
          sum_log_likelihoods, ops>>

modelVars == <<num, barcodes, ref_bc_mtx, alt_bc_mtx, model_genotypes,
               P_c_s, P_s_c, assigned>>

driverVars == <<iterations, sum_log_likelihoods>>

-----------------------------------------------------------------------------
(* Bounds of the model                                                     *)

MaxFields == 3

MaxRecords == 3

MaxSNVs == 2

MaxClusters == 2

MaxCount == 1

MaxCalls == 2

\* while iterations < 6
Rounds == 6

WeightDen == 2

GridDen == 3

PostDen == 5

-----------------------------------------------------------------------------
(* Strings                                                                 *)

Digits == {"1"}

\* the fields a value of the SNV column is made of: empty, a number, a word
FieldPool == {<<>>, <<"1">>, <<"x">>}

\* ':'.join(fields)
RECURSIVE Join(_)
Join(fields) ==
    IF Len(fields) = 1 THEN fields[1]
    ELSE fields[1] \o <<":">> \o Join(Tail(fields))

\* before the loop of main has read a value
NoRecord == <<"">>

\* the values the SNV column of the reference csv can hold
RawKeys == {Join(fs) : fs \in UNION {[1..k -> FieldPool] : k \in 1..MaxFields}}

\* str.split(':'): the fields between the separators, at least one
RECURSIVE Split(_)
Split(s) ==
    IF \A i \in 1..Len(s) : s[i] # ":" THEN <<s>>
    ELSE LET i == CHOOSE j \in 1..Len(s) :
                      s[j] = ":" /\ \A k \in 1..(j - 1) : s[k] # ":"
         IN  <<SubSeq(s, 1, i - 1)>> \o Split(SubSeq(s, i + 1, Len(s)))

\* "{}:{}".format(snv.CHROM, snv.POS), str(CHROM) + ':' + str(POS)
FormatPos(snv) == snv.CHROM \o <<":">> \o snv.POS

-----------------------------------------------------------------------------
(* class SNV_data                                                          *)

\* __init__ raises IndexError on split(':')[1] when there is no separator
SNVInitRaises(chrom_pos) == Len(Split(chrom_pos)) < 2

SNV_data(chrom_pos) ==
    [CHROM |-> Split(chrom_pos)[1], POS |-> Split(chrom_pos)[2]]

RECURSIVE PosLoop(_, _)
PosLoop(snvs, acc) ==
    IF snvs = <<>> THEN acc
    ELSE LET pos == FormatPos(Head(snvs))
         IN  PosLoop(Tail(snvs),
                     IF \E i \in 1..Len(acc) : acc[i] = pos
                     THEN acc ELSE Append(acc, pos))

\* a variant of get_all_SNV_pos without the test "pos not in all_POS"
AllPosUnchecked(snvs) == [i \in 1..Len(snvs) |-> FormatPos(snvs[i])]

get_all_SNV_pos(snvs) == PosLoop(snvs, <<>>)

-----------------------------------------------------------------------------
(* Exact arithmetic on the values the program holds as floats              *)

RECURSIVE Gcd(_, _)
Gcd(a, b) == IF b = 0 THEN a ELSE Gcd(b, a % b)

Abs(x) == IF x < 0 THEN -x ELSE x

\* n/d in lowest terms with d > 0; 0/0 is NaN, as numpy divides
Rat(n, d) ==
    IF d = 0 THEN [n |-> 0, d |-> 0]
    ELSE LET g == Gcd(Abs(n), Abs(d))
             s == IF d < 0 THEN -1 ELSE 1
         IN  [n |-> s * (n \div g), d |-> s * (d \div g)]

Zero == [n |-> 0, d |-> 1]

One == [n |-> 1, d |-> 1]

IsNaN(x) == x.d = 0

RAdd(x, y) ==
    LET l == (x.d \div Gcd(x.d, y.d)) * y.d
    IN  Rat(x.n * (l \div x.d) + y.n * (l \div y.d), l)

RSub(x, y) == RAdd(x, [n |-> -y.n, d |-> y.d])

RMul(x, y) ==
    LET g1 == Gcd(Abs(x.n), y.d)
        g2 == Gcd(Abs(y.n), x.d)
    IN  Rat((x.n \div g1) * (y.n \div g2), (x.d \div g2) * (y.d \div g1))

RDiv(x, y) == IF y.n = 0 THEN Rat(0, 0) ELSE RMul(x, [n |-> y.d, d |-> y.n])

RLess(x, y) == x.n * y.d < y.n * x.d

RGeq(x, y) == ~IsNaN(x) /\ ~IsNaN(y) /\ ~RLess(x, y)

RECURSIVE RPow(_, _)
RPow(x, k) == IF k = 0 THEN One ELSE RMul(x, RPow(x, k - 1))

FromInt(k) == [n |-> k, d |-> 1]

-----------------------------------------------------------------------------
(* pandas objects                                                          *)
(* A count matrix is a sequence of rows, row i labelled                    *)
(* FormatPos(all_SNVs[i]), each row a function of the barcode.  A genotype *)
(* DataFrame is [index |-> labels, A |-> values of column 'A'].            *)

\* mtx.loc[pos, barcode] for a label that is in the index once
Loc(mtx, pos, barcode) ==
    mtx[CHOOSE i \in 1..Len(all_SNVs) : FormatPos(all_SNVs[i]) = pos][barcode]

\* mtx.sum().sum()
RECURSIVE SumSeq(_)
SumSeq(xs) == IF xs = <<>> THEN 0 ELSE Head(xs) + SumSeq(Tail(xs))

MtxTotal(mtx) ==
    SumSeq([i \in 1..Len(mtx) |->
               SumSeq([j \in 1..Len(barcodes) |-> mtx[i][barcodes[j]]])])

DFHas(df, pos) == \E i \in 1..Len(df.index) : df.index[i] = pos

\* df.loc[pos]
DFLoc(df, pos) == df.A[CHOOSE i \in 1..Len(df.index) : df.index[i] = pos]

\* df.loc[pos] = val: every row of that label, or a new row when there is none
DFSet(df, pos, val) ==
    IF DFHas(df, pos)
    THEN [df EXCEPT !.A = [i \in 1..Len(df.A) |->
                              IF df.index[i] = pos THEN val ELSE df.A[i]]]
    ELSE [index |-> Append(df.index, pos), A |-> Append(df.A, val)]

\* pd.DataFrame(np.zeros((rows, 1)), index=index, columns=['A'])
ZeroFrame(index) == [index |-> index, A |-> [i \in 1..Len(index) |-> Zero]]

\* pd.DataFrame(np.zeros((len(barcodes), num)), index=barcodes, columns=range(num))
ZeroMatrix(bcs, k) == [c \in {bcs[j] : j \in 1..Len(bcs)} |-> [n \in 0..(k - 1) |-> Zero]]

BarcodeSet == {barcodes[j] : j \in 1..Len(barcodes)}

Clusters == 0..(num - 1)

-----------------------------------------------------------------------------
(* models.calculate_model_genotypes, first branch: initialisation          *)

\* pd.DataFrame raises ValueError when the data has len(all_SNVs) rows and
\* the index has len(get_all_SNV_pos(all_SNVs)) labels
FrameShapeRaises == Len(all_SNVs) # Len(get_all_SNV_pos(all_SNVs))

\* np.random.beta(a, b) raises ValueError unless a > 0 and b > 0
BetaRaises == MtxTotal(ref_bc_mtx) <= 0 \/ MtxTotal(alt_bc_mtx) <= 0

\* item[1] of a row of num samples raises IndexError when num < 2
ColumnRaises == num < 2 /\ Len(all_SNVs) > 0

InitRaises == FrameShapeRaises \/ BetaRaises \/ ColumnRaises

\* model_genotypes as the exception leaves it (it is raised for n = 0)
InitAborted ==
    IF FrameShapeRaises THEN << <<>> >>
    ELSE <<ZeroFrame(get_all_SNV_pos(all_SNVs))>>

\* the frame of cluster n filled from col = [item[1] for item in beta_sim]
RECURSIVE FillFrame(_, _, _)
FillFrame(df, col, i) ==
    IF i > Len(all_SNVs) THEN df
    ELSE FillFrame(DFSet(df, FormatPos(all_SNVs[i]), col[i]), col, i + 1)

InitGenotypes(cols) ==
    [n \in 1..num |->
        FillFrame(ZeroFrame(get_all_SNV_pos(all_SNVs)), cols[n], 1)]

-----------------------------------------------------------------------------
(* models.calculate_model_genotypes, else branch: re-estimation            *)

RECURSIVE WeightedAlt(_, _, _)
WeightedAlt(pos, n, j) ==
    IF j > Len(barcodes) THEN Zero
    ELSE RAdd(RMul(P_s_c[barcodes[j]][n],
                   FromInt(Loc(alt_bc_mtx, pos, barcodes[j]))),
              WeightedAlt(pos, n, j + 1))

RECURSIVE WeightedTotal(_, _, _)
WeightedTotal(pos, n, j) ==
    IF j > Len(barcodes) THEN Zero
    ELSE RAdd(RMul(P_s_c[barcodes[j]][n],
                   FromInt(Loc(alt_bc_mtx, pos, barcodes[j])
                           + Loc(ref_bc_mtx, pos, barcodes[j]))),
              WeightedTotal(pos, n, j + 1))

\* a variant of the estimate with the pseudo-count 1 in the denominator
SmoothedByOne(A_sv, T_sv) == RDiv(RAdd(A_sv, One), RAdd(T_sv, One))

\* (A_sv + 1) / (T_sv + 2)
Smoothed(A_sv, T_sv) == RDiv(RAdd(A_sv, One), RAdd(T_sv, FromInt(2)))

\* A_sv and T_sv are set to 0 once, before the loops, and only added to:
\* step s of the loops is variant s \div num, cluster s % num
RECURSIVE ReestLoop(_, _, _, _)
ReestLoop(s, A_sv, T_sv, G) ==
    IF s >= Len(all_SNVs) * num THEN G
    ELSE LET pos == FormatPos(all_SNVs[(s \div num) + 1])
             n   == s % num
             A2  == RAdd(A_sv, WeightedAlt(pos, n, 1))
             T2  == RAdd(T_sv, WeightedTotal(pos, n, 1))
         IN  ReestLoop(s + 1, A2, T2,
                       [G EXCEPT ![n + 1] = DFSet(G[n + 1], pos, Smoothed(A2, T2))])

Reestimate == ReestLoop(0, Zero, Zero, model_genotypes)

-----------------------------------------------------------------------------
(* models.calculate_cell_likelihood                                        *)

\* the positions Series.nonzero() returns for column barcode of mtx, ascending
RECURSIVE Nonzero(_, _, _)
Nonzero(mtx, barcode, i) ==
    IF i > Len(mtx) THEN <<>>
    ELSE (IF mtx[i][barcode] # 0 THEN <<i>> ELSE <<>>)
         \o Nonzero(mtx, barcode, i + 1)

\* indices: first the positions of the reference column, then those of the
\* alternate column
Indices(barcode) ==
    Nonzero(ref_bc_mtx, barcode, 1) \o Nonzero(alt_bc_mtx, barcode, 1)

\* self.model_genotypes[n].loc[pos] raises IndexError or KeyError when it is
\* not there, and math.log2 raises ValueError outside (0, 1)
TermRaises(n, i) ==
    \/ n + 1 > Len(model_genotypes)
    \/ ~DFHas(model_genotypes[n + 1], FormatPos(all_SNVs[i]))
    \/ LET g == DFLoc(model_genotypes[n + 1], FormatPos(all_SNVs[i]))
       IN  IsNaN(g) \/ g.n <= 0 \/ g.n >= g.d

\* 2 ** l_P_c_Sv, where l_P_c_Sv = alt_count * log2(g) + ref_count * log2(1 - g)
Term(barcode, n, i) ==
    LET pos       == FormatPos(all_SNVs[i])
        g         == DFLoc(model_genotypes[n + 1], pos)
        ref_count == Loc(ref_bc_mtx, pos, barcode)
        alt_count == Loc(alt_bc_mtx, pos, barcode)
    IN  RMul(RPow(g, alt_count), RPow(RSub(One, g), ref_count))

\* 2 ** all_var_llhood: the sum of the logarithms is the product of the terms
RECURSIVE VarLikelihood(_, _, _)
VarLikelihood(barcode, n, idx) ==
    IF idx = <<>> THEN One
    ELSE RMul(Term(barcode, n, Head(idx)), VarLikelihood(barcode, n, Tail(idx)))

CellRaises(barcode, n) ==
    \E k \in 1..Len(Indices(barcode)) : TermRaises(n, Indices(barcode)[k])

RECURSIVE RowSum(_, _)
RowSum(row, n) == IF n < 0 THEN Zero ELSE RAdd(row[n], RowSum(row, n - 1))

RECURSIVE ColumnSum(_, _, _)
ColumnSum(P, n, j) ==
    IF j > Len(barcodes) THEN Zero
    ELSE RAdd(P[barcodes[j]][n], ColumnSum(P, n, j + 1))

\* a variant of the normalisation that divides by the sums of the columns
NormalizeByColumn(P) ==
    [c \in DOMAIN P |-> [n \in DOMAIN P[c] |-> RDiv(P[c][n], ColumnSum(P, n, 1))]]

\* P_c_s.div(P_c_s.sum(axis=1), axis=0)
Normalize(P) ==
    [c \in DOMAIN P |-> [n \in DOMAIN P[c] |-> RDiv(P[c][n], RowSum(P[c], num - 1))]]

\* the loop over the barcodes from barcode j on: each barcode writes its row of
\* P_c_s cluster by cluster and then P_s_c is recomputed from all of P_c_s
RECURSIVE LikelihoodLoop(_, _, _)
LikelihoodLoop(j, Pcs, Psc) ==
    IF j > Len(barcodes) THEN [P_c_s |-> Pcs, P_s_c |-> Psc, raised |-> FALSE]
    ELSE LET c      == barcodes[j]
             bad    == {n \in Clusters : CellRaises(c, n)}
             stop   == IF bad = {} THEN num
                       ELSE CHOOSE n \in bad : \A m \in bad : n <= m
             newrow == [n \in Clusters |->
                           IF n < stop THEN VarLikelihood(c, n, Indices(c))
                           ELSE Pcs[c][n]]
             Pcs2   == [Pcs EXCEPT ![c] = newrow]
         IN  IF bad # {}
             THEN [P_c_s |-> Pcs2, P_s_c |-> Psc, raised |-> TRUE]
             ELSE LikelihoodLoop(j + 1, Pcs2, Normalize(Pcs2))

CellLikelihood == LikelihoodLoop(1, P_c_s, P_s_c)

-----------------------------------------------------------------------------
(* models.assign_cells                                                     *)

\* the threshold 0.8
Threshold == [n |-> 4, d |-> 5]

\* Series.max(), which skips NaN and is NaN when nothing is left
RowMax(row) ==
    LET fin == {n \in DOMAIN row : ~IsNaN(row[n])}
    IN  IF fin = {} THEN Rat(0, 0)
        ELSE row[CHOOSE n \in fin : \A m \in fin : ~RLess(row[n], row[m])]

\* pd.Series.idxmax: the first label that holds the maximum
IdxMax(row) ==
    CHOOSE n \in DOMAIN row :
        /\ row[n] = RowMax(row)
        /\ \A m \in DOMAIN row : row[m] = RowMax(row) => n <= m

\* a variant of the test with > in place of >=
IsAssignableStrict(row) ==
    ~IsNaN(RowMax(row)) /\ RLess(Threshold, RowMax(row))

IsAssignable(row) == RGeq(RowMax(row), Threshold)

RECURSIVE AssignLoop(_, _)
AssignLoop(j, buckets) ==
    IF j > Len(barcodes) THEN buckets
    ELSE LET row == P_s_c[barcodes[j]]
         IN  IF IsAssignable(row)
             THEN AssignLoop(j + 1,
                     [buckets EXCEPT ![IdxMax(row) + 1] = Append(@, barcodes[j])])
             ELSE AssignLoop(j + 1, buckets)

CharRank(ch) == IF ch = "A" THEN 1 ELSE IF ch = "C" THEN 2 ELSE IF ch = "G" THEN 3 ELSE 4

\* s < t in the order of Python strings
RECURSIVE StrLess(_, _)
StrLess(s, t) ==
    IF t = <<>> THEN FALSE
    ELSE IF s = <<>> THEN TRUE
    ELSE IF Head(s) # Head(t) THEN CharRank(Head(s)) < CharRank(Head(t))
    ELSE StrLess(Tail(s), Tail(t))

RECURSIVE Insert(_, _)
Insert(x, xs) ==
    IF xs = <<>> THEN <<x>>
    ELSE IF StrLess(x, Head(xs)) THEN <<x>> \o xs
    ELSE <<Head(xs)>> \o Insert(x, Tail(xs))

\* sorted(xs)
RECURSIVE Sorted(_)
Sorted(xs) == IF xs = <<>> THEN <<>> ELSE Insert(Head(xs), Sorted(Tail(xs)))

AssignCells ==
    LET buckets == AssignLoop(1, assigned)
    IN  [n \in 1..Len(buckets) |-> Sorted(buckets[n])]

-----------------------------------------------------------------------------
(* Inputs                                                                  *)

SNVPool == {SNV_data(<<"1", ":", "1">>), SNV_data(<<"x", ":", "1">>)}

\* lists of variants, with and without a repeated key
SNVLists == UNION {[1..k -> SNVPool] : k \in 0..MaxSNVs}

UniqueSNVLists ==
    {l \in SNVLists : \A i, j \in 1..Len(l) : l[i] = l[j] => i = j}

BarcodePool == {<<"A", "C">>, <<"C", "A">>}

BarcodeLists == {l \in [1..2 -> BarcodePool] : l[1] # l[2]}

CountMatrices(snvs) == [1..Len(snvs) -> [BarcodePool -> 0..MaxCount]]

\* values in [0, 1] of an entry of P_s_c
WeightGrid == {Rat(k, WeightDen) : k \in 0..WeightDen}

\* values in (0, 1): a sample of the beta distribution, a genotype probability
Grid == {Rat(k, GridDen) : k \in 1..(GridDen - 1)}

PostGrid == {Rat(k, PostDen) : k \in 0..PostDen}

Half == [n |-> 1, d |-> 2]

EmptyBuckets(k) == [n \in 1..k |-> <<>>]

-----------------------------------------------------------------------------
(* One model object and calls of calculate_model_genotypes                 *)

\* a model as run_model constructs it (no genotype vectors, P_s_c of zeros),
\* or a model between two rounds: genotype vectors of an earlier call, and in
\* P_s_c any matrix of weights in [0, 1]
InitGenotypeCalls ==
    /\ pc = "ready"
    /\ all_SNVs \in SNVLists
    /\ all_POS = <<>>
    /\ record = NoRecord
    /\ num \in 1..MaxClusters
    /\ barcodes = <<<<"A", "C">>, <<"C", "A">>>>
    /\ ref_bc_mtx \in CountMatrices(all_SNVs)
    /\ alt_bc_mtx \in CountMatrices(all_SNVs)
    /\ P_c_s = ZeroMatrix(barcodes, num)
    /\ \/ /\ model_genotypes = <<>>
          /\ P_s_c = ZeroMatrix(barcodes, num)
       \/ /\ all_SNVs \in UniqueSNVLists
          /\ all_SNVs # <<>>
          /\ model_genotypes =
                [n \in 1..num |->
                    [index |-> get_all_SNV_pos(all_SNVs),
                     A |-> [i \in 1..Len(all_SNVs) |-> Half]]]
          /\ P_s_c \in [BarcodePool -> [0..(num - 1) -> WeightGrid]]
    /\ assigned = EmptyBuckets(num)
    /\ iterations = 0
    /\ sum_log_likelihoods = <<>>
    /\ ops = <<>>

\* calculate_model_genotypes, whichever branch the state selects
CalculateModelGenotypes ==
    /\ pc = "ready"
    /\ Len(ops) < MaxCalls
    /\ ops' = Append(ops, IF model_genotypes = <<>>
                           THEN "initialize_genotypes"
                           ELSE "reestimate_genotypes")
    /\ IF model_genotypes = <<>>
       THEN IF InitRaises
            THEN /\ model_genotypes' = InitAborted
                 /\ pc' = "error"
            ELSE /\ \E cols \in [1..num -> [1..Len(all_SNVs) -> Grid]] :
                        model_genotypes' = InitGenotypes(cols)
                 /\ pc' = "ready"
       ELSE /\ model_genotypes' = Reestimate
            /\ pc' = "ready"
    /\ UNCHANGED <<all_SNVs, all_POS, record, num, barcodes, ref_bc_mtx, alt_bc_mtx,
                   P_c_s, P_s_c, assigned, iterations, sum_log_likelihoods>>

SpecGenotypes == InitGenotypeCalls /\ [][CalculateModelGenotypes]_vars

-----------------------------------------------------------------------------
(* One model object constructed with genotype vectors (the parameter       *)
(* model_genotypes), calculate_cell_likelihood and then assign_cells       *)

GenotypeFrames(snvs, k) ==
    {[n \in 1..k |-> [index |-> get_all_SNV_pos(snvs), A |-> vals[n]]] :
        vals \in [1..k -> [1..Len(snvs) -> Grid]]}

InitLikelihoodCalls ==
    /\ pc = "ready"
    /\ all_SNVs \in UniqueSNVLists
    /\ all_POS = <<>>
    /\ record = NoRecord
    /\ num \in 1..MaxClusters
    /\ barcodes = <<<<"C", "A">>, <<"A", "C">>>>
    /\ ref_bc_mtx \in CountMatrices(all_SNVs)
    /\ alt_bc_mtx \in CountMatrices(all_SNVs)
    /\ model_genotypes \in GenotypeFrames(all_SNVs, num)
    /\ P_c_s = ZeroMatrix(barcodes, num)
    /\ P_s_c = ZeroMatrix(barcodes, num)
    /\ assigned = EmptyBuckets(num)
    /\ iterations = 0
    /\ sum_log_likelihoods = <<>>
    /\ ops = <<>>

CalculateCellLikelihood ==
    /\ pc = "ready"
    /\ ops' = Append(ops, "calculate_cell_likelihood")
    /\ LET r == CellLikelihood
       IN  /\ P_c_s' = r.P_c_s
           /\ P_s_c' = r.P_s_c
           /\ pc' = IF r.raised THEN "error" ELSE "likelihood_done"
    /\ UNCHANGED <<all_SNVs, all_POS, record, num, barcodes, ref_bc_mtx, alt_bc_mtx,
                   model_genotypes, assigned, iterations, sum_log_likelihoods>>

AssignAfterLikelihood ==
    /\ pc = "likelihood_done"
    /\ ops' = Append(ops, "assign_cells")
    /\ assigned' = AssignCells
    /\ pc' = "assigned"
    /\ UNCHANGED <<all_SNVs, all_POS, record, num, barcodes, ref_bc_mtx, alt_bc_mtx,
                   model_genotypes, P_c_s, P_s_c, iterations,
                   sum_log_likelihoods>>

NextLikelihood == CalculateCellLikelihood \/ AssignAfterLikelihood

SpecLikelihood == InitLikelihoodCalls /\ [][NextLikelihood]_vars

-----------------------------------------------------------------------------
(* One model object whose P_s_c holds any matrix of posteriors, NaN         *)
(* included, and one call of assign_cells                                  *)

InitAssignCall ==
    /\ pc = "ready"
    /\ all_SNVs = <<>>
    /\ all_POS = <<>>
    /\ record = NoRecord
    /\ num \in 1..MaxClusters
    /\ barcodes \in BarcodeLists
    /\ ref_bc_mtx = <<>>
    /\ alt_bc_mtx = <<>>
    /\ model_genotypes = <<>>
    /\ P_c_s = ZeroMatrix(barcodes, num)
    /\ P_s_c \in [BarcodePool -> [0..(num - 1) -> PostGrid \cup {Rat(0, 0)}]]
    /\ assigned = EmptyBuckets(num)
    /\ iterations = 0
    /\ sum_log_likelihoods = <<>>
    /\ ops = <<>>

AssignCellsCall ==
    /\ pc = "ready"
    /\ ops' = Append(ops, "assign_cells")
    /\ assigned' = AssignCells
    /\ pc' = "assigned"
    /\ UNCHANGED <<all_SNVs, all_POS, record, num, barcodes, ref_bc_mtx, alt_bc_mtx,
                   model_genotypes, P_c_s, P_s_c, iterations,
                   sum_log_likelihoods>>

SpecAssign == InitAssignCall /\ [][AssignCellsCall]_vars

-----------------------------------------------------------------------------
(* main: the loop that builds all_SNVs from the SNV column, and the call   *)
(* of get_all_SNV_pos.                                                     *)

InitRegistry ==
    /\ pc = "read"
    /\ all_SNVs = <<>>
    /\ all_POS = <<>>
    /\ record = NoRecord
    /\ num = 2
    /\ barcodes = <<>>
    /\ ref_bc_mtx = <<>>
    /\ alt_bc_mtx = <<>>
    /\ model_genotypes = <<>>
    /\ P_c_s = <<>>
    /\ P_s_c = <<>>
    /\ assigned = <<>>
    /\ iterations = 0
    /\ sum_log_likelihoods = <<>>
    /\ ops = <<>>

\* all_SNVs.append(SNV_data(record)); an exception ends main
Register ==
    /\ pc = "read"
    /\ Len(all_SNVs) < MaxRecords
    /\ record' \in RawKeys
    /\ IF SNVInitRaises(record')
       THEN /\ pc' = "error"
            /\ UNCHANGED all_SNVs
       ELSE /\ pc' = "read"
            /\ all_SNVs' = Append(all_SNVs, SNV_data(record'))
    /\ UNCHANGED <<all_POS, modelVars, driverVars, ops>>

\* all_POS = SNV_data.get_all_SNV_pos(all_SNVs)
GetAllSNVPos ==
    /\ pc = "read"
    /\ all_POS' = get_all_SNV_pos(all_SNVs)
    /\ pc' = "registered"
    /\ UNCHANGED <<all_SNVs, record, modelVars, driverVars, ops>>

NextRegistry == Register \/ GetAllSNVPos

SpecRegistry == InitRegistry /\ [][NextRegistry]_vars

-----------------------------------------------------------------------------
(* run_model.  The driver reads no floating-point value: here every value  *)
(* a step computes is held as the stamp of the round that computed it, and *)
(* the comparison with the threshold in assign_cells can go either way.    *)

Stamp(r) == [round |-> r]

StampColumn == [i \in 1..Len(all_SNVs) |-> Stamp(iterations)]

StampMatrix == [c \in BarcodeSet |-> [n \in Clusters |-> Stamp(iterations)]]

Init ==
    /\ pc = "start"
    /\ all_SNVs \in SNVLists
    /\ all_POS = <<>>
    /\ record = NoRecord
    /\ num \in 1..MaxClusters
    /\ barcodes = <<<<"C", "A">>, <<"A", "C">>>>
    /\ ref_bc_mtx \in CountMatrices(all_SNVs)
    /\ alt_bc_mtx \in CountMatrices(all_SNVs)
    /\ model_genotypes = <<>>
    /\ P_c_s = <<>>
    /\ P_s_c = <<>>
    /\ assigned = <<>>
    /\ iterations = 0
    /\ sum_log_likelihoods = <<>>
    /\ ops = <<>>

\* model = models(..., model_genotypes=[], assigned=None, P_c_s=[], P_s_c=[]);
\* iterations = 0; sum_log_likelihoods = []
Construct ==
    /\ pc = "start"
    /\ P_s_c' = ZeroMatrix(barcodes, num)
    /\ P_c_s' = ZeroMatrix(barcodes, num)
    /\ assigned' = EmptyBuckets(num)
    /\ iterations' = 0
    /\ sum_log_likelihoods' = <<>>
    /\ pc' = "while"
    /\ UNCHANGED <<all_SNVs, all_POS, record, num, barcodes, ref_bc_mtx, alt_bc_mtx,
                   model_genotypes, ops>>

\* while iterations < 6: iterations += 1
EnterRound ==
    /\ pc = "while"
    /\ iterations < Rounds
    /\ iterations' = iterations + 1
    /\ pc' = "genotypes"
    /\ UNCHANGED <<all_SNVs, all_POS, record, modelVars, sum_log_likelihoods, ops>>

ExitLoop ==
    /\ pc = "while"
    /\ ~(iterations < Rounds)
    /\ pc' = "assign"
    /\ UNCHANGED <<all_SNVs, all_POS, record, modelVars, driverVars, ops>>

\* model.calculate_model_genotypes()
GenotypeStep ==
    /\ pc = "genotypes"
    /\ ops' = Append(ops, IF model_genotypes = <<>>
                           THEN "initialize_genotypes"
                           ELSE "reestimate_genotypes")
    /\ IF model_genotypes = <<>>
       THEN IF InitRaises
            THEN /\ model_genotypes' = InitAborted
                 /\ pc' = "error"
            ELSE /\ model_genotypes' = InitGenotypes([n \in 1..num |-> StampColumn])
                 /\ pc' = "likelihood"
       ELSE /\ model_genotypes' =
                  [n \in 1..num |-> FillFrame(model_genotypes[n], StampColumn, 1)]
            /\ pc' = "likelihood"
    /\ UNCHANGED <<all_SNVs, all_POS, record, num, barcodes, ref_bc_mtx, alt_bc_mtx,
                   P_c_s, P_s_c, assigned, driverVars>>

\* model.calculate_cell_likelihood()
LikelihoodStep ==
    /\ pc = "likelihood"
    /\ ops' = Append(ops, "calculate_cell_likelihood")
    /\ P_c_s' = StampMatrix
    /\ P_s_c' = StampMatrix
    /\ pc' = "trace"
    /\ UNCHANGED <<all_SNVs, all_POS, record, num, barcodes, ref_bc_mtx, alt_bc_mtx,
                   model_genotypes, assigned, driverVars>>

\* sum_log_likelihoods.append(model.P_c_s.apply(np.log).sum().sum())
TraceStep ==
    /\ pc = "trace"
    /\ sum_log_likelihoods' = Append(sum_log_likelihoods, Stamp(iterations))
    /\ pc' = "while"
    /\ UNCHANGED <<all_SNVs, all_POS, record, modelVars, iterations, ops>>

\* the buckets when barcode c goes to cluster f[c], or to none for f[c] = -1
BucketsOf(f) ==
    [n \in 1..num |->
        Sorted(SelectSeq(barcodes, LAMBDA c : f[c] = n - 1))]

\* model.assign_cells()
AssignStep ==
    /\ pc = "assign"
    /\ ops' = Append(ops, "assign_cells")
    /\ \E f \in [BarcodeSet -> {-1} \cup Clusters] : assigned' = BucketsOf(f)
    /\ pc' = "write"
    /\ UNCHANGED <<all_SNVs, all_POS, record, num, barcodes, ref_bc_mtx, alt_bc_mtx,
                   model_genotypes, P_c_s, P_s_c, driverVars>>

\* the csv files are written and the trace is printed
WriteOutputs ==
    /\ pc = "write"
    /\ pc' = "done"
    /\ UNCHANGED <<all_SNVs, all_POS, record, modelVars, driverVars, ops>>

Next ==
    \/ Construct
    \/ EnterRound
    \/ GenotypeStep
    \/ LikelihoodStep
    \/ TraceStep
    \/ ExitLoop
    \/ AssignStep
    \/ WriteOutputs

Spec == Init /\ [][Next]_vars

-----------------------------------------------------------------------------
(* Properties                                                              *)

Last(xs) == xs[Len(xs)]

OpKind(op) ==
    IF op \in {"initialize_genotypes", "reestimate_genotypes"} THEN "genotype"
    ELSE op

\* the k-th call of a run: Rounds times genotype then likelihood, then assign
ExpectedKind(k) ==
    IF k = 2 * Rounds + 1 THEN "assign_cells"
    ELSE IF k % 2 = 1 THEN "genotype"
    ELSE "calculate_cell_likelihood"

\* The calls made so far are the first calls of the sequence (genotype step,
\* likelihood step) x Rounds, assign_cells; the trace holds one entry per
\* completed round; assign_cells is reached only after Rounds rounds and a
\* finished run has made all 2 * Rounds + 1 calls.
RunShape ==
    /\ Len(ops) <= 2 * Rounds + 1
    /\ \A k \in 1..Len(ops) : OpKind(ops[k]) = ExpectedKind(k)
    /\ Len(sum_log_likelihoods) = (IF pc \in {"genotypes", "likelihood", "trace", "error"}
                                   THEN iterations - 1 ELSE iterations)
    /\ pc \in {"assign", "write", "done"} =>
          iterations = Rounds /\ Len(sum_log_likelihoods) = Rounds
    /\ pc \in {"write", "done"} => Len(ops) = 2 * Rounds + 1
    /\ pc \in {"start", "while", "genotypes", "likelihood", "trace", "assign",
               "write", "done", "error"}

\* C1: for every input a run of run_model performs Rounds times (genotype
\* step, likelihood step) and then assign_cells once, with one trace entry per
\* round: the calls made are always a prefix of that sequence and no run ends
\* before it has made all of them.  (Stated for count matrices with reads of
\* both alleles, which the beta distribution of the first round needs.)
C1_RunsFixedRounds == ~BetaRaises => (RunShape /\ pc # "error")

\* the value the claim gives for variant i and cluster n: accumulators of
\* that pair alone
PerPairEstimate(i, n) ==
    Smoothed(WeightedAlt(FormatPos(all_SNVs[i]), n, 1),
             WeightedTotal(FormatPos(all_SNVs[i]), n, 1))

AfterReestimation ==
    ops # <<>> /\ Last(ops) = "reestimate_genotypes" /\ pc = "ready"

RowsNormalized == \A c \in BarcodeSet : RowSum(P_s_c[c], num - 1) = One

\* C2: after re-estimation the genotype of every variant v and cluster n is
\* (A + 1) / (T + 2) with A and T summed over the barcodes for that pair alone.
\* (Stated for posterior matrices whose rows sum to 1.)
C2_PerPairAccumulators ==
    (AfterReestimation /\ RowsNormalized) =>
        \A i \in 1..Len(all_SNVs) : \A n \in Clusters :
            DFLoc(model_genotypes[n + 1], FormatPos(all_SNVs[i]))
                = PerPairEstimate(i, n)

Covered(barcode) ==
    {i \in 1..Len(all_SNVs) : ref_bc_mtx[i][barcode] # 0 \/ alt_bc_mtx[i][barcode] # 0}

\* the product of the terms of the covered variants from variant i on, one
\* term each
RECURSIVE OncePerVariant(_, _, _)
OncePerVariant(barcode, n, i) ==
    IF i > Len(all_SNVs) THEN One
    ELSE RMul(IF i \in Covered(barcode) THEN Term(barcode, n, i) ELSE One,
              OncePerVariant(barcode, n, i + 1))

AfterLikelihood == pc \in {"likelihood_done", "assigned"}

\* C3: after the likelihood step P_c_s[c, n] is 2 to the sum of one term
\* alt * log2(G) + ref * log2(1 - G) per covered variant of c, a variant with
\* both counts nonzero included once.
C3_OneTermPerVariant ==
    AfterLikelihood =>
        \A c \in BarcodeSet : \A n \in Clusters :
            P_c_s[c][n] = OncePerVariant(c, n, 1)

InOpenUnitInterval(x) == ~IsNaN(x) /\ 0 < x.n /\ x.n < x.d

\* C4: after every re-estimation every genotype probability of every cluster
\* and variant lies strictly between 0 and 1.
C4_GenotypesStrictlyInside ==
    AfterReestimation =>
        \A n \in 1..Len(model_genotypes) :
            \A i \in 1..Len(model_genotypes[n].A) :
                InOpenUnitInterval(model_genotypes[n].A[i])

\* a re-estimation from nonzero weights and counts, whose result is not the
\* estimate 1/2 of no evidence, with reads of one allele only somewhere
C4_Witness ==
    /\ AfterReestimation
    /\ \E n \in 1..Len(model_genotypes) :
          \E i \in 1..Len(model_genotypes[n].A) : model_genotypes[n].A[i] # Half
    /\ \E i \in 1..Len(all_SNVs) : \E c \in BarcodeSet :
          alt_bc_mtx[i][c] > 0 /\ ref_bc_mtx[i][c] = 0 /\ P_s_c[c][0].n > 0

Occurrences(xs, x) == Cardinality({k \in 1..Len(xs) : xs[k] = x})

BucketsHolding(c) == {n \in 1..Len(assigned) : Occurrences(assigned[n], c) > 0}

ReachesThreshold(row) ==
    \E n \in DOMAIN row : ~IsNaN(row[n]) /\ ~RLess(row[n], Threshold)

HoldsMaximum(row, n) ==
    ~IsNaN(row[n]) /\ \A m \in DOMAIN row : IsNaN(row[m]) \/ ~RLess(row[n], row[m])

\* C6: after assign_cells no barcode is in two buckets or twice in one, a
\* barcode whose maximum posterior is below 0.8 is in no bucket, and a barcode
\* whose maximum posterior is at least 0.8 is in the bucket of a cluster that
\* holds the maximum.
C6_BucketsDisjointAndThresholded ==
    pc = "assigned" =>
        \A c \in BarcodeSet :
            /\ Cardinality(BucketsHolding(c)) <= 1
            /\ \A n \in BucketsHolding(c) : Occurrences(assigned[n], c) = 1
            /\ ~ReachesThreshold(P_s_c[c]) => BucketsHolding(c) = {}
            /\ ReachesThreshold(P_s_c[c]) =>
                  \E n \in BucketsHolding(c) : HoldsMaximum(P_s_c[c], n - 1)

\* an assignment with one barcode exactly at the threshold, in its bucket, and
\* another barcode below it
C6_Witness ==
    /\ pc = "assigned"
    /\ \E c \in BarcodeSet :
          RowMax(P_s_c[c]) = Threshold /\ BucketsHolding(c) # {}
    /\ \E c \in BarcodeSet :
          ~ReachesThreshold(P_s_c[c]) /\ BucketsHolding(c) = {}

\* C7: with a barcode of zero counts at every variant the likelihood step
\* raises nothing, and after assign_cells that barcode is in no bucket,
\* whatever the number of clusters.  (Stated for inputs with a variant.)
C7_UncoveredBarcodeUnassigned ==
    all_SNVs # <<>> =>
        /\ pc # "error"
        /\ pc = "assigned" =>
              \A c \in BarcodeSet : Covered(c) = {} => BucketsHolding(c) = {}

KeysOf(snvs) == {FormatPos(snvs[i]) : i \in 1..Len(snvs)}

FirstOccurrence(snvs, pos) ==
    CHOOSE i \in 1..Len(snvs) :
        FormatPos(snvs[i]) = pos /\ \A j \in 1..(i - 1) : FormatPos(snvs[j]) # pos

HasSeparator(key) == \E i \in 1..Len(key) : key[i] = ":"

IsNumeric(field) ==
    field # <<>> /\ \A i \in 1..Len(field) : field[i] \in Digits

Malformed(key) == ~HasSeparator(key) \/ ~IsNumeric(Split(key)[2])

\* C9: a key without ':' or with a position that is not a number makes the
\* construction fail: reading such a value ends in the error, and all_SNVs
\* holds no object with such a position.
C9_MalformedKeyRejected ==
    /\ (record # NoRecord /\ Malformed(record)) => pc = "error"
    /\ \A i \in 1..Len(all_SNVs) : IsNumeric(all_SNVs[i].POS)

\* C10: the first call of calculate_model_genotypes on a model without
\* genotype vectors raises nothing and leaves num vectors, each indexed by the
\* distinct keys in registry order; later calls keep the vectors and their
\* index.  (Stated for count matrices with reads of both alleles.)
C10_FirstCallBuildsVectors ==
    (ops # <<>> /\ ops[1] = "initialize_genotypes" /\ ~BetaRaises) =>
        /\ pc # "error"
        /\ Len(model_genotypes) = num
        /\ \A n \in 1..Len(model_genotypes) :
              model_genotypes[n].index = get_all_SNV_pos(all_SNVs)

=============================================================================
